---- MODULE Spec2Model ----
(***************************************************************************)
(* A model of the rule translator (hack/translate): the pattern algebra of *)
(* targets/common.py, the filter helpers, the schema's loading, and the    *)
(* five backend emitters.                                                   *)
(*                                                                         *)
(* Representation.  A Python str is a sequence of one-character strings,   *)
(* so that escaping, lower-casing and concatenation are computed character *)
(* by character.  An Optional value is None (the empty tuple) or Some(x)   *)
(* (the one-element tuple holding x); an Optional list that is present but *)
(* empty is Some(<<>>), which Python treats as falsy like None.            *)
(***************************************************************************)
EXTENDS Integers, Sequences, FiniteSets, Bags, TLC

VARIABLES
    pc,        \* translate.py: "start", "loaded", "failed" or "done"; "idle" then "returned" in the function-level specifications
    opts,      \* translate.py: the parsed options, [target, document]
    rules,     \* translate.py _translate: the rules _load_rules returned
    document,  \* the backend document value the emitter returned
    warnings,  \* the records passed to logger.warning, in order
    call,      \* function-level specifications: the function called and its argument
    ret        \* function-level specifications: the value it returned

vars == <<pc, opts, rules, document, warnings, call, ret>>

\* ------------------------------------------------------------------ values

None == <<>>
Some(x) == <<x>>

\* Python truthiness of an Optional list or str: present and non-empty.
Truthy(o) == o # None /\ o[1] # <<>>

\* `o or []` for an Optional list.
OrEmpty(o) == IF o = None THEN <<>> ELSE o[1]

\* All sequences over S of length 0..n.
SeqsUpTo(S, n) == UNION {[1..k -> S] : k \in 0..n}

RECURSIVE Concat(_)
\* "".join(parts), also the flattening of a list of lists.
Concat(parts) ==
    IF parts = <<>> THEN <<>> ELSE Head(parts) \o Concat(Tail(parts))

RECURSIVE Join(_, _)
\* sep.join(parts)
Join(sep, parts) ==
    IF parts = <<>> THEN <<>>
    ELSE IF Len(parts) = 1 THEN parts[1]
    ELSE parts[1] \o sep \o Join(sep, Tail(parts))

\* [f(x) for x in xs if P(x)] is written SelectSeq and a function constructor.
Map(F(_), xs) == [i \in 1..Len(xs) |-> F(xs[i])]

\* ------------------------------------------------------------------ bounds

\* The longest list of literal strings or of patterns given to a helper.
MaxStrings == 2

\* ------------------------------------------------------------------ str helpers

UpperCase == <<"A", "B", "C", "D", "E", "F", "G", "H", "I", "J", "K", "L", "M",
               "N", "O", "P", "Q", "R", "S", "T", "U", "V", "W", "X", "Y", "Z">>
LowerCase == <<"a", "b", "c", "d", "e", "f", "g", "h", "i", "j", "k", "l", "m",
               "n", "o", "p", "q", "r", "s", "t", "u", "v", "w", "x", "y", "z">>

\* str.lower() on one character.
lower_char(c) ==
    IF \E i \in 1..26 : UpperCase[i] = c
    THEN LowerCase[CHOOSE i \in 1..26 : UpperCase[i] = c]
    ELSE c

\* str.lower()
lower(s) == [i \in 1..Len(s) |-> lower_char(s[i])]

\* The characters re.escape puts a backslash before (Python >= 3.7).
SpecialChars == {"(", ")", "[", "]", "{", "}", "?", "*", "+", "-", "|", "^",
                 "$", "\\", ".", "&", "~", "#", " ", "\t", "\n", "\r", "\f"}

\* re.escape(s)
re_escape(s) ==
    Concat([i \in 1..Len(s) |->
              IF s[i] \in SpecialChars THEN <<"\\", s[i]>> ELSE <<s[i]>>])

\* ------------------------------------------------------------------ sample inputs

\* Literal strings as a filter's *_strings fields hold them.
Literals == {
    <<"a">>,
    <<"A", "b">>,
    <<"x", ".", "Y">>,
    <<"(", "?", "i", ")">>,
    <<"a", "|", "B">>,
    <<>> }

\* Patterns that compile under the reference engine.
Patterns == {
    <<"a", "b">>,
    <<"[", "A", "-", "Z", "]", "+">>,
    <<"a", "|", "b">> }

OptionOf(S) == {None} \cup {Some(x) : x \in S}

\* schema.Target
Targets ==
    [prefix_pattern : OptionOf(Patterns), pattern : Patterns,
     suffix_pattern : OptionOf(Patterns)]

\* ------------------------------------------------------------------ targets/common.py

\* _pattern_str(pattern, capture_group, noncapture_group).  The assert makes
\* a call with both flags a failure; no caller in the program passes both.
_pattern_str(pattern, capture_group, noncapture_group) ==
    IF pattern = None THEN <<>>
    ELSE IF capture_group THEN <<"(">> \o pattern[1] \o <<")">>
    ELSE IF noncapture_group THEN <<"(", "?", ":">> \o pattern[1] \o <<")">>
    ELSE pattern[1]

\* A bug _match_pattern could have: the target is always a capture group.
_match_pattern_always_grouped(target) ==
    _pattern_str(target.prefix_pattern, FALSE, TRUE)
        \o _pattern_str(Some(target.pattern), TRUE, FALSE)
        \o _pattern_str(target.suffix_pattern, FALSE, TRUE)

\* _match_pattern(rule), of rule.target
_match_pattern(target) ==
    LET prefix == _pattern_str(target.prefix_pattern, FALSE, TRUE)
        suffix == _pattern_str(target.suffix_pattern, FALSE, TRUE)
        core == _pattern_str(Some(target.pattern),
                             prefix # <<>> \/ suffix # <<>>, FALSE)
    IN  prefix \o core \o suffix

\* The flag that starts a pattern built from literal strings.
IgnoreCase == <<"(", "?", "i", ")">>

\* A bug _strings_to_pattern could have: the flag inside every alternative.
_strings_to_pattern_flag_each(strings) ==
    IF strings = None THEN None
    ELSE LET l == strings[1] IN
         IF Len(l) = 0 THEN None
         ELSE IF Len(l) = 1 THEN Some(IgnoreCase \o lower(re_escape(l[1])))
         ELSE Some(Join(<<"|">>,
                  [i \in 1..Len(l) |->
                     <<"(", "?", ":">> \o IgnoreCase \o lower(re_escape(l[i]))
                         \o <<")">>]))

\* _strings_to_pattern(strings)
_strings_to_pattern(strings) ==
    IF strings = None THEN None
    ELSE LET l == strings[1] IN
         IF Len(l) = 0 THEN None
         ELSE IF Len(l) = 1 THEN Some(IgnoreCase \o lower(re_escape(l[1])))
         ELSE Some(IgnoreCase
                   \o Join(<<"|">>,
                        [i \in 1..Len(l) |->
                           <<"(", "?", ":">> \o lower(re_escape(l[i])) \o <<")">>]))

\* _or_patterns(patterns)
_or_patterns(patterns) ==
    IF Len(patterns) = 0 THEN None
    ELSE IF Len(patterns) = 1 THEN Some(patterns[1])
    ELSE Some(Join(<<"|">>,
             [i \in 1..Len(patterns) |->
                <<"(", "?", ":">> \o patterns[i] \o <<")">>]))

\* ------------------------------------------------------------------ the pattern algebra, called

NoCall == [fn |-> "none", arg |-> <<>>]

Idle ==
    /\ pc = "idle"
    /\ opts = <<>>
    /\ rules = <<>>
    /\ document = <<>>

InitCalls ==
    /\ Idle
    /\ warnings = <<>>
    /\ call = NoCall
    /\ ret = <<>>

Returns(fn, arg, value, log) ==
    /\ call' = [fn |-> fn, arg |-> arg]
    /\ ret' = value
    /\ warnings' = log
    /\ pc' = "returned"
    /\ UNCHANGED <<opts, rules, document>>

CallMatchPattern ==
    /\ pc = "idle"
    /\ \E target \in Targets :
          Returns("_match_pattern", target, _match_pattern(target), <<>>)

CallStringsToPattern ==
    /\ pc = "idle"
    /\ \E strings \in OptionOf(SeqsUpTo(Literals, MaxStrings)) :
          Returns("_strings_to_pattern", strings, _strings_to_pattern(strings), <<>>)

CallOrPatterns ==
    /\ pc = "idle"
    /\ \E patterns \in SeqsUpTo(Patterns, MaxStrings) :
          Returns("_or_patterns", patterns, _or_patterns(patterns), <<>>)

NextPattern == CallMatchPattern \/ CallStringsToPattern \/ CallOrPatterns

SpecPattern == InitCalls /\ [][NextPattern]_vars

\* ------------------------------------------------------------------ schema.py: filters

\* The longest rule.filters list.
MaxFilters == 3

\* FilterKind
REQUIRE == "require"
EXCLUDE == "exclude"

\* target_min_entropy values, in tenths: 0.0, 2.0 and 3.5.
Entropies == {0, 20, 35}

\* A Filter with no optional field set.  RequireFilter and ExcludeFilter are
\* one record shape here; a field the variant does not declare is None.
BareFilter(kind) ==
    [kind |-> kind,
     target_strings |-> None, path_patterns |-> None, path_strings |-> None,
     context_strings |-> None,
     target_min_entropy |-> None,
     target_patterns |-> None, match_patterns |-> None, match_strings |-> None,
     context_patterns |-> None]

\* list[str] | None and list[Pattern] | None values: absent, empty, one, two.
SomeStrings == {None, Some(<<>>), Some(<< <<"A", "b">> >>)}
SomePatterns == {None, Some(<<>>), Some(<< <<"a", "|", "b">> >>)}

\* ------------------------------------------------------------------ targets/common.py: filters

\* _required_filters(rule), of rule.filters
_required_filters(filters) ==
    SelectSeq(OrEmpty(filters), LAMBDA f : f.kind = REQUIRE)

\* _excluded_filters(rule), of rule.filters
_excluded_filters(filters) ==
    SelectSeq(OrEmpty(filters), LAMBDA f : f.kind = EXCLUDE)

RECURSIVE max_entropy(_, _)
\* The loop of _min_entropy over req_filters, from the running maximum.
max_entropy(req_filters, entropy) ==
    IF req_filters = <<>> THEN entropy
    ELSE LET e == Head(req_filters).target_min_entropy IN
         max_entropy(Tail(req_filters),
                     IF e # None /\ e[1] # 0 /\ e[1] > entropy THEN e[1]
                     ELSE entropy)

\* _min_entropy(rule), of rule.filters
_min_entropy(filters) ==
    LET req_filters == _required_filters(filters) IN
    IF req_filters = <<>> THEN None
    ELSE LET entropy == max_entropy(req_filters, 0) IN
         IF entropy = 0 THEN None ELSE Some(entropy)

\* ------------------------------------------------------------------ targets/gitleaks.py

\* logger.warning(msg, arg): what is recorded.
Warning(msg, arg) == [msg |-> msg, arg |-> arg]

\* _keywords(rule), of rule.filters (gitleaks.py and trufflehog.py alike)
_keywords(filters) ==
    LET req_filters == _required_filters(filters)
        keywords ==
            Concat([i \in 1..Len(req_filters) |->
                      OrEmpty(req_filters[i].context_strings)
                          \o OrEmpty(req_filters[i].target_strings)])
    IN  IF req_filters = <<>> \/ keywords = <<>> THEN None ELSE Some(keywords)

\* _RegexTarget
LINE == "line"
MATCH == "match"
SECRET == "secret"

MatchWarning == "applying match patterns with a regex target"
TargetWarning == "applying target patterns with a regex target"

\* A bug _allowlist_regexes could have: every populated scope sets the
\* regex target, so that the last one wins, and nothing is logged.
_allowlist_regexes_last_wins(f) ==
    LET context == Truthy(f.context_patterns) \/ Truthy(f.context_strings)
        match == Truthy(f.match_patterns) \/ Truthy(f.match_strings)
        target == Truthy(f.target_patterns)
        patterns ==
            (IF context
             THEN OrEmpty(f.context_patterns) \o _strings_to_pattern(f.context_strings)
             ELSE <<>>)
            \o (IF match
                THEN OrEmpty(f.match_patterns) \o _strings_to_pattern(f.match_strings)
                ELSE <<>>)
            \o (IF target THEN OrEmpty(f.target_patterns) ELSE <<>>)
        regex_target ==
            IF target THEN Some(SECRET)
            ELSE IF match THEN Some(MATCH)
            ELSE IF context THEN Some(LINE) ELSE None
    IN  IF patterns = <<>>
        THEN [regex_target |-> None, patterns |-> None, log |-> <<>>]
        ELSE [regex_target |-> regex_target, patterns |-> Some(patterns), log |-> <<>>]

\* A bug _allowlist_regexes could have: a scope counts as soon as its field
\* is given, an empty list included, and the target chosen is returned even
\* when no pattern was collected.
_allowlist_regexes_by_presence(f) ==
    LET context == f.context_patterns # None \/ f.context_strings # None
        match == f.match_patterns # None \/ f.match_strings # None
        target == f.target_patterns # None
        regex_target == IF context THEN Some(LINE)
                        ELSE IF match THEN Some(MATCH)
                        ELSE IF target THEN Some(SECRET)
                        ELSE None
        patterns ==
            OrEmpty(f.context_patterns) \o _strings_to_pattern(f.context_strings)
                \o OrEmpty(f.match_patterns) \o _strings_to_pattern(f.match_strings)
                \o OrEmpty(f.target_patterns)
    IN  [regex_target |-> regex_target,
         patterns |-> IF patterns = <<>> THEN None ELSE Some(patterns),
         log |-> <<>>]

\* _allowlist_regexes(rule, f): [regex_target, patterns] and what it logs.
_allowlist_regexes(f) ==
    LET context == Truthy(f.context_patterns) \/ Truthy(f.context_strings)
        match == Truthy(f.match_patterns) \/ Truthy(f.match_strings)
        target == Truthy(f.target_patterns)
        target1 == IF context THEN Some(LINE) ELSE None
        patterns1 ==
            IF context
            THEN OrEmpty(f.context_patterns) \o _strings_to_pattern(f.context_strings)
            ELSE <<>>
        log2 == IF match /\ target1 # None
                THEN <<Warning(MatchWarning, target1)>> ELSE <<>>
        target2 == IF match /\ target1 = None THEN Some(MATCH) ELSE target1
        patterns2 ==
            IF match
            THEN patterns1 \o OrEmpty(f.match_patterns)
                     \o _strings_to_pattern(f.match_strings)
            ELSE patterns1
        log3 == IF target /\ target2 # None
                THEN log2 \o <<Warning(TargetWarning, target2)>> ELSE log2
        target3 == IF target /\ target2 = None THEN Some(SECRET) ELSE target2
        patterns3 ==
            IF target THEN patterns2 \o OrEmpty(f.target_patterns) ELSE patterns2
    IN  IF patterns3 = <<>>
        THEN [regex_target |-> None, patterns |-> None, log |-> log3]
        ELSE [regex_target |-> target3, patterns |-> Some(patterns3), log |-> log3]

\* ------------------------------------------------------------------ schema.py: rules

\* A RuleId: S3IG and sixteen times the character c.
SampleId(c) == <<"S", "3", "I", "G">> \o [i \in 1..16 |-> c]

\* RuleMeta with its defaults.
BareMeta ==
    [kind |-> "unknown", name |-> <<"n", "m">>, description |-> None,
     confidence |-> None, examples |-> None, references |-> None,
     report |-> TRUE, tags |-> None]

\* A Rule with only its required fields.
BareRule ==
    [id |-> SampleId("A"),
     meta |-> BareMeta,
     dependencies |-> None,
     target |-> [prefix_pattern |-> None, pattern |-> <<"a", "b">>,
                 suffix_pattern |-> None],
     filters |-> None,
     analyzers |-> None]

\* ------------------------------------------------------------------ targets/github.py

\* _PostProcessingRule
MUST_MATCH == "must_match"
MUST_NOT_MATCH == "must_not_match"

SkipWarning == "skipping filter for rule"

\* post_proc_patterns for one filter, as the loop body of _pattern builds it.
post_proc_patterns(f) ==
    _strings_to_pattern(f.target_strings)
        \o (IF f.kind = EXCLUDE THEN OrEmpty(f.target_patterns) ELSE <<>>)

\* post_proc_rule for one filter.
post_proc_rule(f) == IF f.kind = REQUIRE THEN MUST_MATCH ELSE MUST_NOT_MATCH

\* github._pattern(rule): the values mapping and what it logs.  The keys
\* post_processing_{i} and post_processing_rule_{i} are the entry i of
\* post_processing; i is the filter's place in rule.filters, from 0.
github_pattern(rule) ==
    LET filters == OrEmpty(rule.filters)
        n == Len(filters)
        kept == {i \in 0..(n - 1) : post_proc_patterns(filters[i + 1]) # <<>>}
        skipped == SelectSeq([j \in 1..n |-> j],
                             LAMBDA j : post_proc_patterns(filters[j]) = <<>>)
    IN  [values |->
            [secret_format |-> rule.target.pattern,
             before_secret |-> rule.target.prefix_pattern,
             after_secret |-> rule.target.suffix_pattern,
             post_processing |->
                [i \in kept |->
                    [post_processing |-> _or_patterns(post_proc_patterns(filters[i + 1])),
                     post_processing_rule |-> post_proc_rule(filters[i + 1])]]],
         log |-> [j \in 1..Len(skipped) |-> Warning(SkipWarning, Some(rule.id))]]

\* ------------------------------------------------------------------ the filter helpers, called

\* REQUIRE filters that differ in what the helpers read, and one EXCLUDE.
HelperFilters ==
    {[BareFilter(REQUIRE) EXCEPT !.target_min_entropy = e, !.context_strings = c] :
        e \in OptionOf(Entropies), c \in {None, Some(<< <<"a">> >>)}}
    \cup {[BareFilter(REQUIRE) EXCEPT !.target_strings = Some(<< <<"x", ".", "Y">> >>)],
          [BareFilter(EXCLUDE) EXCEPT !.target_strings = Some(<< <<"A", "b">> >>)]}

\* EXCLUDE filters over every combination of the scope fields.
ScopeFilters ==
    {[BareFilter(EXCLUDE) EXCEPT
         !.context_patterns = cp, !.context_strings = cs,
         !.match_patterns = mp, !.match_strings = ms, !.target_patterns = tp] :
        cp \in SomePatterns, cs \in SomeStrings,
        mp \in {None, Some(<< <<"a", "b">> >>)}, ms \in SomeStrings,
        tp \in SomePatterns}

CallMinEntropy ==
    /\ pc = "idle"
    /\ \E filters \in OptionOf(SeqsUpTo(HelperFilters, MaxFilters)) :
          Returns("_min_entropy", filters, _min_entropy(filters), <<>>)

CallKeywords ==
    /\ pc = "idle"
    /\ \E filters \in OptionOf(SeqsUpTo(HelperFilters, MaxFilters)) :
          Returns("_keywords", filters, _keywords(filters), <<>>)

CallAllowlistRegexes ==
    /\ pc = "idle"
    /\ \E f \in ScopeFilters :
          LET r == _allowlist_regexes(f) IN
          Returns("_allowlist_regexes", f,
                  [regex_target |-> r.regex_target, patterns |-> r.patterns], r.log)

\* Filters that differ in what github._pattern reads.
GithubFilters ==
    {[BareFilter(REQUIRE) EXCEPT !.target_strings = ts] : ts \in SomeStrings}
    \cup {[BareFilter(EXCLUDE) EXCEPT !.target_strings = ts, !.target_patterns = tp] :
             ts \in SomeStrings, tp \in SomePatterns}

CallGithubPattern ==
    /\ pc = "idle"
    /\ \E filters \in OptionOf(SeqsUpTo(GithubFilters, MaxFilters)) :
          LET rule == [BareRule EXCEPT !.filters = filters]
              r == github_pattern(rule)
          IN  Returns("github._pattern", rule, r.values, r.log)

NextFilters ==
    CallMinEntropy \/ CallKeywords \/ CallAllowlistRegexes \/ CallGithubPattern

SpecFilters == InitCalls /\ [][NextFilters]_vars

\* ------------------------------------------------------------------ schema.py: analyzers

\* The longest HttpMatcher.statuses list.
MaxRanges == 2

\* What a validator returns, or that it raised ValueError.
Ok(v) == [raised |-> FALSE, value |-> v]
Raised == [raised |-> TRUE, value |-> <<>>]

\* A status range as the document gives it: an int n is IntValue(n), a list
\* is ListValue of its items.
IntValue(n) == [is_int |-> TRUE, items |-> <<n>>]
ListValue(l) == [is_int |-> FALSE, items |-> l]

\* A bug ensure_valid_range could have: a pair of equal numbers accepted.
ensure_valid_range_accepting_equal(value) ==
    IF value.is_int THEN Ok(<<value.items[1], value.items[1]>>)
    ELSE IF Len(value.items) # 2 THEN Raised
    ELSE IF value.items[1] > value.items[2] THEN Raised
    ELSE Ok(value.items)

\* ensure_valid_range(value)
ensure_valid_range(value) ==
    IF value.is_int THEN Ok(<<value.items[1], value.items[1]>>)
    ELSE IF Len(value.items) # 2 THEN Raised
    ELSE IF value.items[1] >= value.items[2] THEN Raised
    ELSE Ok(value.items)

\* Syntax
HTML == "html"
JSON == "json"
XML == "xml"

\* AnalyzerKind
HTTP == "http"

\* HttpMatcher with no field set.
BareMatcher ==
    [statuses |-> None, headers |-> None, body_strings |-> None,
     body_patterns |-> None, body_syntax |-> None]

\* An Analyzer of kind HTTP with only its required fields; AnalyzerMeta's
\* report defaults to False.  The url is a list of characters.
BareAnalyzer ==
    [meta |-> [kind |-> HTTP, report |-> FALSE],
     action |-> [url |-> <<"h", "t", "t", "p", "s", ":", "/", "/", "h", "/">>,
                 method |-> None, headers |-> None, body |-> None,
                 timeout |-> None],
     condition |-> <<>>]

\* Status codes at and around the ends of the valid domain and its middle.
StatusPoints == {0, 100, 250, 349, 350, 599}

\* Status ranges as a document gives them, well-formed or not.
RawRanges ==
    {IntValue(n) : n \in StatusPoints}
    \cup {ListValue(<<a, b>>) : a, b \in StatusPoints}
    \cup {ListValue(<<>>), ListValue(<<100>>), ListValue(<<100, 200, 599>>)}

\* The StatusRange values the schema accepts, normalised.
StatusRanges ==
    {ensure_valid_range(v).value : v \in {w \in RawRanges : ~ensure_valid_range(w).raised}}

\* ------------------------------------------------------------------ targets/kingfisher.py

\* valid_http_statuses = set(range(100, 600))
valid_http_statuses == 100..599

\* list(s) of a set s, as the bag of its items: each once, in an order that
\* the program does not fix.
ListOfSet(s) == SetToBag(s)

\* A bug _resolve_status could have: negating also on a tie.
_resolve_status_negates_ties(statuses) ==
    LET expanded == UNION {statuses[i][1]..statuses[i][2] : i \in 1..Len(statuses)}
        negated == valid_http_statuses \ expanded
    IN  IF Cardinality(expanded) >= Cardinality(negated)
        THEN [negative |-> TRUE, status |-> ListOfSet(negated)]
        ELSE [negative |-> FALSE, status |-> ListOfSet(expanded)]

RECURSIVE listed_ranges(_)
\* The codes of the ranges listed one range after the other, a code once for
\* every range it lies in.
listed_ranges(statuses) ==
    IF statuses = <<>> THEN EmptyBag
    ELSE SetToBag(Head(statuses)[1]..Head(statuses)[2]) (+) listed_ranges(Tail(statuses))

\* A bug _resolve_status could have: the expansion kept as a list, so that a
\* code of two overlapping ranges is emitted twice.
_resolve_status_listing_ranges(statuses) ==
    LET expanded == UNION {statuses[i][1]..statuses[i][2] : i \in 1..Len(statuses)}
        negated == valid_http_statuses \ expanded
    IN  IF Cardinality(expanded) > Cardinality(negated)
        THEN [negative |-> TRUE, status |-> ListOfSet(negated)]
        ELSE [negative |-> FALSE, status |-> listed_ranges(statuses)]

\* _resolve_status(statuses): (negative, status)
_resolve_status(statuses) ==
    LET expanded == UNION {statuses[i][1]..statuses[i][2] : i \in 1..Len(statuses)}
        negated == valid_http_statuses \ expanded
    IN  IF Cardinality(expanded) > Cardinality(negated)
        THEN [negative |-> TRUE, status |-> ListOfSet(negated)]
        ELSE [negative |-> FALSE, status |-> ListOfSet(expanded)]

\* str.upper() on one character.
upper_char(c) ==
    IF \E i \in 1..26 : LowerCase[i] = c
    THEN UpperCase[CHOOSE i \in 1..26 : LowerCase[i] = c]
    ELSE c

IsLetter(c) == \E i \in 1..26 : UpperCase[i] = c \/ LowerCase[i] = c

\* str.title(): a letter after a non-letter (or first) is upper-cased, a
\* letter after a letter lower-cased.
title(s) ==
    [i \in 1..Len(s) |->
        IF i > 1 /\ IsLetter(s[i - 1]) THEN lower_char(s[i]) ELSE upper_char(s[i])]

\* _ResponseMatcherType
STATUS_MATCH == "StatusMatch"
HEADER_MATCH == "HeaderMatch"
JSON_VALID == "JsonValid"
XML_VALID == "XmlValid"
REPORT_RESPONSE == "ReportResponse"

\* A bug the loop body of _response_matcher could have: the status matcher
\* appended before the body-syntax matcher.
condition_matchers_status_first(matcher) ==
    (IF Truthy(matcher.statuses)
     THEN LET r == _resolve_status(matcher.statuses[1]) IN
          <<[type |-> STATUS_MATCH, status |-> r.status, negative |-> r.negative]>>
     ELSE <<>>)
    \o (IF matcher.body_syntax = Some(JSON) THEN <<[type |-> JSON_VALID]>>
        ELSE IF matcher.body_syntax = Some(XML) THEN <<[type |-> XML_VALID]>>
        ELSE <<>>)
    \o (LET headers == OrEmpty(matcher.headers) IN
        [i \in 1..Len(headers) |->
            [type |-> HEADER_MATCH, header |-> title(headers[i].name),
             expected |-> headers[i].values]])

\* The matchers _response_matcher appends for one entry of analyzer.condition.
\* headers is the mapping's items in insertion order, each [name, values].
condition_matchers(matcher) ==
    (IF matcher.body_syntax = Some(JSON) THEN <<[type |-> JSON_VALID]>>
     ELSE IF matcher.body_syntax = Some(XML) THEN <<[type |-> XML_VALID]>>
     ELSE <<>>)
    \o (IF Truthy(matcher.statuses)
        THEN LET r == _resolve_status(matcher.statuses[1]) IN
             <<[type |-> STATUS_MATCH, status |-> r.status, negative |-> r.negative]>>
        ELSE <<>>)
    \o (LET headers == OrEmpty(matcher.headers) IN
        [i \in 1..Len(headers) |->
            [type |-> HEADER_MATCH, header |-> title(headers[i].name),
             expected |-> headers[i].values]])

\* _response_matcher(analyzer)
_response_matcher(analyzer) ==
    Concat([i \in 1..Len(analyzer.condition) |->
              condition_matchers(analyzer.condition[i])])
    \o (IF analyzer.meta.report
        THEN <<[type |-> REPORT_RESPONSE, report_response |-> Some(TRUE)]>>
        ELSE <<>>)

\* _response_is_html(analyzer)
_response_is_html(analyzer) ==
    IF \E i \in 1..Len(analyzer.condition) :
           analyzer.condition[i].body_syntax = Some(HTML)
    THEN Some(TRUE) ELSE None

\* ------------------------------------------------------------------ the status helpers, called

CallEnsureValidRange ==
    /\ pc = "idle"
    /\ \E value \in RawRanges :
          Returns("ensure_valid_range", value, ensure_valid_range(value), <<>>)

CallResolveStatus ==
    /\ pc = "idle"
    /\ \E statuses \in SeqsUpTo(StatusRanges, MaxRanges) :
          Returns("_resolve_status", statuses, _resolve_status(statuses), <<>>)

\* Analyzers of one condition entry that differ in what _response_matcher reads.
MatcherAnalyzers ==
    {[BareAnalyzer EXCEPT
         !.meta.report = report,
         !.condition = <<[BareMatcher EXCEPT !.statuses = statuses,
                                             !.body_syntax = syntax]>>] :
        report \in BOOLEAN,
        syntax \in {None, Some(JSON)},
        statuses \in OptionOf(SeqsUpTo(StatusRanges, MaxRanges))}

CallResponseMatcher ==
    /\ pc = "idle"
    /\ \E analyzer \in MatcherAnalyzers :
          Returns("_response_matcher", analyzer, _response_matcher(analyzer), <<>>)

NextStatus == CallEnsureValidRange \/ CallResolveStatus \/ CallResponseMatcher

SpecStatus == InitCalls /\ [][NextStatus]_vars

\* ------------------------------------------------------------------ targets/gitleaks.py: rules

\* _path_patterns(f)
_path_patterns(f) ==
    LET patterns == OrEmpty(f.path_patterns) \o _strings_to_pattern(f.path_strings)
    IN  IF patterns = <<>> THEN None ELSE Some(patterns)

\* _path(rule)
_path(rule) ==
    LET req_filters == _required_filters(rule.filters) IN
    _or_patterns(Concat([i \in 1..Len(req_filters) |->
                            OrEmpty(_path_patterns(req_filters[i]))]))

\* _tags(rule).  f"kind:{x}" is the pair of the prefix and x.
_tags(rule) ==
    << <<"kind:", rule.meta.kind>> >>
    \o (IF rule.meta.confidence # None
        THEN << <<"confidence:", rule.meta.confidence[1]>> >> ELSE <<>>)
    \o OrEmpty(rule.meta.tags)

\* _required(rule)
_required(rule) ==
    IF ~Truthy(rule.dependencies) THEN None
    ELSE LET deps == rule.dependencies[1] IN
         Some([i \in 1..Len(deps) |->
                 [id |-> deps[i].rule_id,
                  withinLines |-> deps[i].within_lines,
                  withinColumns |-> deps[i].within_columns]])

\* _description(rule)
_description(rule) ==
    IF Truthy(rule.meta.description) THEN rule.meta.description
    ELSE Some(rule.meta.name)

\* _skip_report(rule)
_skip_report(rule) == ~rule.meta.report

\* _AllowlistCondition.AND
AND == "and"

\* A bug _allowlists could have: an allowlist for every filter of the rule,
\* REQUIRE filters included.
_allowlists_of_every_filter(rule) ==
    LET filters == OrEmpty(rule.filters)
        regexes == [i \in 1..Len(filters) |-> _allowlist_regexes(filters[i])]
    IN  [value |->
            IF filters = <<>> THEN None
            ELSE Some([i \in 1..Len(filters) |->
                         [condition |-> AND,
                          stopwords |-> filters[i].target_strings,
                          paths |-> _path_patterns(filters[i]),
                          regexes |-> regexes[i].patterns,
                          regexTarget |-> regexes[i].regex_target]]),
         log |-> Concat([i \in 1..Len(filters) |-> regexes[i].log])]

\* _allowlists(rule): the allowlists and what building them logs.
_allowlists(rule) ==
    LET exc_filters == _excluded_filters(rule.filters)
        regexes == [i \in 1..Len(exc_filters) |-> _allowlist_regexes(exc_filters[i])]
    IN  [value |->
            IF exc_filters = <<>> THEN None
            ELSE Some([i \in 1..Len(exc_filters) |->
                         [condition |-> AND,
                          stopwords |-> exc_filters[i].target_strings,
                          paths |-> _path_patterns(exc_filters[i]),
                          regexes |-> regexes[i].patterns,
                          regexTarget |-> regexes[i].regex_target]]),
         log |-> Concat([i \in 1..Len(exc_filters) |-> regexes[i].log])]

\* ------------------------------------------------------------------ the allowlists, called

\* Filters that differ in what _allowlists reads: nothing set, every list
\* given but empty, stopwords and both kinds of path, an empty scope beside a
\* populated one, two populated scopes, and REQUIRE filters with the same
\* fields.
AllowlistFilters ==
    {BareFilter(EXCLUDE),
     [BareFilter(EXCLUDE) EXCEPT
         !.target_strings = Some(<<>>), !.path_patterns = Some(<<>>),
         !.path_strings = Some(<<>>), !.context_strings = Some(<<>>),
         !.context_patterns = Some(<<>>), !.match_patterns = Some(<<>>),
         !.match_strings = Some(<<>>), !.target_patterns = Some(<<>>)],
     [BareFilter(EXCLUDE) EXCEPT
         !.target_strings = Some(<< <<"A", "b">> >>),
         !.path_patterns = Some(<< <<"a", "|", "b">> >>),
         !.path_strings = Some(<< <<"x", ".", "Y">> >>)],
     [BareFilter(EXCLUDE) EXCEPT
         !.path_strings = Some(<< <<"x", ".", "Y">>, <<"A", "b">> >>),
         !.context_patterns = Some(<<>>),
         !.target_patterns = Some(<< <<"a", "b">> >>)],
     [BareFilter(EXCLUDE) EXCEPT
         !.context_patterns = Some(<< <<"a", "|", "b">> >>),
         !.match_strings = Some(<< <<"A", "b">> >>)],
     BareFilter(REQUIRE),
     [BareFilter(REQUIRE) EXCEPT
         !.target_strings = Some(<< <<"A", "b">> >>),
         !.path_patterns = Some(<< <<"a", "|", "b">> >>),
         !.path_strings = Some(<< <<"x", ".", "Y">> >>)]}

CallAllowlists ==
    /\ pc = "idle"
    /\ \E filters \in OptionOf(SeqsUpTo(AllowlistFilters, MaxFilters)) :
          LET rule == [BareRule EXCEPT !.filters = filters]
              r == _allowlists(rule)
          IN  Returns("_allowlists", rule, r.value, r.log)

CallPathPatterns ==
    /\ pc = "idle"
    /\ \E kind \in {REQUIRE, EXCLUDE}, pp \in SomePatterns, ps \in SomeStrings :
          LET f == [BareFilter(kind) EXCEPT !.path_patterns = pp, !.path_strings = ps]
          IN  Returns("_path_patterns", f, _path_patterns(f), <<>>)

\* _allowlists on a rule of one EXCLUDE filter, over every combination of the
\* scope fields.
CallAllowlistOfScopes ==
    /\ pc = "idle"
    /\ \E f \in ScopeFilters :
          LET rule == [BareRule EXCEPT !.filters = Some(<<f>>)]
              r == _allowlists(rule)
          IN  Returns("_allowlists", rule, r.value, r.log)

NextAllowlists == CallAllowlists \/ CallPathPatterns \/ CallAllowlistOfScopes

SpecAllowlists == InitCalls /\ [][NextAllowlists]_vars

GitleaksAnalyzersWarning == "rule.analyzers ignored in gitleaks: rule_id="

\* gitleaks._rule(rule)
gitleaks_rule(rule) ==
    LET allowlists == _allowlists(rule) IN
    [value |->
        [id |-> rule.id,
         description |-> _description(rule),
         path |-> _path(rule),
         regex |-> Some(_match_pattern(rule.target)),
         entropy |-> _min_entropy(rule.filters),
         keywords |-> _keywords(rule.filters),
         tags |-> Some(_tags(rule)),
         required |-> _required(rule),
         allowlists |-> allowlists.value,
         skipReport |-> Some(_skip_report(rule))],
     log |->
        (IF rule.analyzers # None
         THEN <<Warning(GitleaksAnalyzersWarning, Some(rule.id))>> ELSE <<>>)
        \o allowlists.log]

\* A bug _config could have: a rule equal to the one before it is dropped.
gitleaks_config_merging(rs) ==
    LET kept == SelectSeq([i \in 1..Len(rs) |-> i],
                          LAMBDA i : i = 1 \/ rs[i] # rs[i - 1])
    IN  [value |-> [rules |-> [k \in 1..Len(kept) |-> gitleaks_rule(rs[kept[k]]).value]],
         log |-> Concat([i \in 1..Len(rs) |-> gitleaks_rule(rs[i]).log])]

\* gitleaks._config(rules)
gitleaks_config(rs) ==
    [value |-> [rules |-> [i \in 1..Len(rs) |-> gitleaks_rule(rs[i]).value]],
     log |-> Concat([i \in 1..Len(rs) |-> gitleaks_rule(rs[i]).log])]

\* github._config(rules)
github_config(rs) ==
    [value |-> [patterns |-> [i \in 1..Len(rs) |-> github_pattern(rs[i]).values]],
     log |-> Concat([i \in 1..Len(rs) |-> github_pattern(rs[i]).log])]

\* ------------------------------------------------------------------ targets/noseyparker.py

NoseyparkerDependenciesWarning == "rule.dependencies ignored in noseyparker: rule_id="
NoseyparkerFiltersWarning == "rule.filters ignored in noseyparker: rule_id="
NoseyparkerAnalyzersWarning == "rule.analyzers ignored in noseyparker: rule_id="

\* _examples(rule) (noseyparker.py and kingfisher.py alike)
_examples(rule) ==
    IF rule.meta.examples # None THEN rule.meta.examples[1].positive ELSE None

\* _negative_examples(rule)
_negative_examples(rule) ==
    IF rule.meta.examples # None THEN rule.meta.examples[1].negative ELSE None

\* noseyparker._rule(rule)
noseyparker_rule(rule) ==
    [value |->
        [name |-> rule.meta.name,
         id |-> rule.id,
         pattern |-> _match_pattern(rule.target),
         examples |-> _examples(rule),
         negative_examples |-> _negative_examples(rule),
         categories |-> rule.meta.tags,
         description |-> rule.meta.description,
         references |-> rule.meta.references],
     log |->
        (IF Truthy(rule.dependencies)
         THEN <<Warning(NoseyparkerDependenciesWarning, Some(rule.id))>> ELSE <<>>)
        \o (IF Truthy(rule.filters)
            THEN <<Warning(NoseyparkerFiltersWarning, Some(rule.id))>> ELSE <<>>)
        \o (IF Truthy(rule.analyzers)
            THEN <<Warning(NoseyparkerAnalyzersWarning, Some(rule.id))>> ELSE <<>>)]

\* noseyparker._config(rules)
noseyparker_config(rs) ==
    [value |-> [rules |-> [i \in 1..Len(rs) |-> noseyparker_rule(rs[i]).value]],
     log |-> Concat([i \in 1..Len(rs) |-> noseyparker_rule(rs[i]).log])]

\* ------------------------------------------------------------------ targets/trufflehog.py

\* _exclude_words(rule)
_exclude_words(rule) ==
    LET exc_filters == _excluded_filters(rule.filters)
        words == Concat([i \in 1..Len(exc_filters) |->
                           OrEmpty(exc_filters[i].target_strings)])
    IN  IF exc_filters = <<>> \/ words = <<>> THEN None ELSE Some(words)

\* _exclude_regexes_match(rule)
_exclude_regexes_match(rule) ==
    LET exc_filters == _excluded_filters(rule.filters)
        patterns ==
            Concat([i \in 1..Len(exc_filters) |->
                      OrEmpty(exc_filters[i].match_patterns)
                          \o (IF Truthy(exc_filters[i].match_strings)
                              THEN _strings_to_pattern(exc_filters[i].match_strings)
                              ELSE <<>>)])
    IN  IF exc_filters = <<>> \/ patterns = <<>> THEN None ELSE Some(patterns)

\* url.scheme: the characters before the first ":".
scheme(url) ==
    LET colons == {i \in 1..Len(url) : url[i] = ":"} IN
    IF colons = {} THEN url
    ELSE SubSeq(url, 1, (CHOOSE i \in colons : \A j \in colons : i <= j) - 1)

TrufflehogKindWarning == "unsupported analyzer kind for trufflehog verify: "

\* The _Verify that _verify appends for one analyzer of kind HTTP.  headers
\* is the mapping's items in insertion order, each [name, value].
verifier(analyzer) ==
    [endpoint |-> analyzer.action.url,
     unsafe |-> IF scheme(analyzer.action.url) = <<"h", "t", "t", "p">>
                THEN Some(TRUE) ELSE None,
     headers |->
        IF ~Truthy(analyzer.action.headers) THEN None
        ELSE LET hs == analyzer.action.headers[1] IN
             Some([i \in 1..Len(hs) |-> hs[i].name \o <<":", " ">> \o hs[i].value])]

\* A bug _verify could have: only the first HTTP analyzer yields an entry, as
\* in the kingfisher lowering.
_verify_first_only(rule) ==
    LET analyzers == OrEmpty(rule.analyzers)
        http == SelectSeq(analyzers, LAMBDA a : a.meta.kind = HTTP)
    IN  [value |-> IF http = <<>> THEN None ELSE Some(<<verifier(http[1])>>),
         log |-> <<>>]

\* _verify(rule): the verifiers and what building them logs.
_verify(rule) ==
    LET analyzers == OrEmpty(rule.analyzers)
        http == SelectSeq(analyzers, LAMBDA a : a.meta.kind = HTTP)
        other == SelectSeq(analyzers, LAMBDA a : a.meta.kind # HTTP)
    IN  [value |->
            IF http = <<>> THEN None
            ELSE Some([i \in 1..Len(http) |-> verifier(http[i])]),
         log |-> [i \in 1..Len(other) |->
                    Warning(TrufflehogKindWarning, Some(other[i].meta.kind))]]

\* _detector(rule)
_detector(rule) ==
    LET verify == _verify(rule) IN
    [value |->
        [name |-> rule.id,
         keywords |-> _keywords(rule.filters),
         regex |-> [target |-> _match_pattern(rule.target)],
         entropy |-> _min_entropy(rule.filters),
         exclude_words |-> _exclude_words(rule),
         exclude_regexes_match |-> _exclude_regexes_match(rule),
         verify |-> verify.value],
     log |-> verify.log]

\* trufflehog._config(rules)
trufflehog_config(rs) ==
    [value |-> [detectors |-> [i \in 1..Len(rs) |-> _detector(rs[i]).value]],
     log |-> Concat([i \in 1..Len(rs) |-> _detector(rs[i]).log])]

\* ------------------------------------------------------------------ template.py

IsDigit(c) == c \in {"0", "1", "2", "3", "4", "5", "6", "7", "8", "9"}
IsWordChar(c) == IsLetter(c) \/ IsDigit(c) \/ c = "_"

RECURSIVE SkipSpaces(_, _)
\* The index of the first character of s from i on that is not a space.
SkipSpaces(s, i) ==
    IF i <= Len(s) /\ s[i] = " " THEN SkipSpaces(s, i + 1) ELSE i

RECURSIVE SkipWord(_, _)
\* The index of the first character of s from i on that is not of a word.
SkipWord(s, i) ==
    IF i <= Len(s) /\ IsWordChar(s[i]) THEN SkipWord(s, i + 1) ELSE i

\* The positions at which a statement of the template opens: "{{" of an
\* output statement or "{%" of a tag.
statement_opens(tmpl) ==
    SelectSeq([i \in 1..Len(tmpl) |-> i],
              LAMBDA i : /\ i < Len(tmpl)
                         /\ tmpl[i] = "{" /\ tmpl[i + 1] \in {"{", "%"}
                         /\ (i = 1 \/ tmpl[i - 1] # "{"))

\* The name of the tag that opens at i, or "" when an output statement does.
tag_name(tmpl, i) ==
    IF tmpl[i + 1] # "%" THEN <<>>
    ELSE LET first == SkipSpaces(tmpl, i + 2)
         IN  SubSeq(tmpl, first, SkipWord(tmpl, first) - 1)

\* How many {% if %} blocks enclose the statement that opens at i.
block_depth(tmpl, i) ==
    LET before == SelectSeq(statement_opens(tmpl), LAMBDA j : j < i)
    IN  Len(SelectSeq(before, LAMBDA j : tag_name(tmpl, j) = <<"i", "f">>))
        - Len(SelectSeq(before,
                        LAMBDA j : tag_name(tmpl, j) = <<"e", "n", "d", "i", "f">>))

\* The span [first, last] of the path that the expression of the statement
\* opening at i starts with: the word after "{{", or after "{% if"; no span
\* (last < first) for a statement without an expression.
path_first(tmpl, i) ==
    IF tmpl[i + 1] = "{" THEN SkipSpaces(tmpl, i + 2)
    ELSE IF tag_name(tmpl, i) = <<"i", "f">>
    THEN SkipSpaces(tmpl, SkipWord(tmpl, SkipSpaces(tmpl, i + 2)))
    ELSE Len(tmpl) + 1

path_last(tmpl, i) == SkipWord(tmpl, path_first(tmpl, i)) - 1

\* The word tokens of the paths of the statements that open at the given
\* positions, as (start_index, value); start_index counts from 0.
statement_tokens(tmpl, opens) ==
    LET words == SelectSeq(opens,
                           LAMBDA i : path_last(tmpl, i) >= path_first(tmpl, i))
    IN  [k \in 1..Len(words) |->
            [start_index |-> path_first(tmpl, words[k]) - 1,
             value |-> SubSeq(tmpl, path_first(tmpl, words[k]),
                              path_last(tmpl, words[k]))]]

\* What the comprehension of map_vars walks over: liquid.parse(tmpl).nodes are
\* the statements of the template's top level (a block's body hangs below its
\* tag's node and is not among them), node.expressions() the expression of
\* the statement itself, and expr.children() the path it starts with.
\* Templates here hold literal text, output statements and {% if %} blocks.
path_tokens(tmpl) ==
    statement_tokens(tmpl,
                     SelectSeq(statement_opens(tmpl),
                               LAMBDA i : block_depth(tmpl, i) = 0))

RECURSIVE replace(_, _, _, _, _)
\* The inner function replace(parts, start, tkns) of map_vars.
replace(tmpl, varmap, parts, start, tkns) ==
    IF Len(tkns) = 0 THEN parts \o SubSeq(tmpl, start + 1, Len(tmpl))
    ELSE LET end == tkns[1].start_index
             val == tkns[1].value
             between == SubSeq(tmpl, start + 1, end)
         IN  replace(tmpl, varmap, parts \o between \o varmap[val],
                     end + Len(val), Tail(tkns))

\* map_vars(tmpl, varmap)
map_vars(tmpl, varmap) ==
    LET tokens_to_replace ==
            SelectSeq(path_tokens(tmpl), LAMBDA t : t.value \in DOMAIN varmap)
    IN  replace(tmpl, varmap, <<>>, 0, tokens_to_replace)

\* A rename table {"target": name}.
varmap_of(name) == [k \in {<<"t", "a", "r", "g", "e", "t">>} |-> name]

\* varmap = {"target": "TOKEN"}  (targets/kingfisher.py)
varmap == varmap_of(<<"T", "O", "K", "E", "N">>)

\* _map_tmpl(tmpl), tmpl a str or None  (targets/kingfisher.py)
_map_tmpl(tmpl) == IF tmpl = None THEN None ELSE Some(map_vars(tmpl[1], varmap))

\* ------------------------------------------------------------------ template.py, called

\* The most segments a template is put together from.
MaxSegments == 3

\* The pieces templates are made of: literal text (one naming a variable),
\* output statements with and without spaces and with a filter, and an
\* {% if %} block with an output statement in its body.
Segments == {
    \* k=
    <<"k", "=">>,
    \* target
    <<"t", "a", "r", "g", "e", "t", " ">>,
    \* {{ target }}
    <<"{", "{", " ", "t", "a", "r", "g", "e", "t", " ", "}", "}">>,
    \* {{k}}
    <<"{", "{", "k", "}", "}">>,
    \* {{ target | f }}
    <<"{", "{", " ", "t", "a", "r", "g", "e", "t", " ", "|", " ", "f", " ", "}", "}">>,
    \* {% if k %}{{ target }}{% endif %}
    <<"{", "%", " ", "i", "f", " ", "k", " ", "%", "}", "{", "{", " ", "t", "a", "r", "g", "e", "t", " ", "}", "}", "{", "%", " ", "e", "n", "d", "i", "f", " ", "%", "}">>}

Templates == {Concat(segs) : segs \in SeqsUpTo(Segments, MaxSegments)}

\* Rename tables: kingfisher's, an empty one, and one to a shorter name.
Varmaps ==
    {varmap_of(<<"T", "O", "K", "E", "N">>), varmap_of(<<"t">>), <<>>}

CallMapVars ==
    /\ pc = "idle"
    /\ \E tmpl \in Templates, table \in Varmaps :
          Returns("map_vars", [tmpl |-> tmpl, varmap |-> table],
                  map_vars(tmpl, table), <<>>)

CallMapTmpl ==
    /\ pc = "idle"
    /\ \E tmpl \in OptionOf(Templates) :
          Returns("_map_tmpl", tmpl, _map_tmpl(tmpl), <<>>)

NextTemplate == CallMapVars \/ CallMapTmpl

SpecTemplate == InitCalls /\ [][NextTemplate]_vars

\* ------------------------------------------------------------------ targets/kingfisher.py: rules

\* str.upper()
upper(s) == [i \in 1..Len(s) |-> upper_char(s[i])]

RECURSIVE dict_of(_, _)
\* The dict built from (name, value) items in order: a name set again keeps
\* its place and takes the later value.
dict_of(items, acc) ==
    IF items = <<>> THEN acc
    ELSE LET it == Head(items)
             at == {j \in 1..Len(acc) : acc[j].name = it.name}
         IN  dict_of(Tail(items),
                     IF at = {} THEN Append(acc, it)
                     ELSE [acc EXCEPT ![CHOOSE j \in at : TRUE].value = it.value])

\* map_headers(_map_tmpl, d) in _validation
map_headers(d) ==
    LET items == OrEmpty(d) IN
    dict_of([i \in 1..Len(items) |->
               [name |-> title(items[i].name),
                value |-> map_vars(items[i].value, varmap)]],
            <<>>)

UnmappedAnalyzersWarning == "analyzers not mapped for this rule"
TimeoutWarning == "HTTP analyzer timeout ignored"
KingfisherFiltersWarning == "rule.filters ignored in kingfisher: rule_id="

\* _ValidationType.HTTP
VALIDATION_HTTP == "Http"

\* _validation(rule): the validation block and what building it logs.
_validation(rule) ==
    IF ~Truthy(rule.analyzers) THEN [value |-> None, log |-> <<>>]
    ELSE
        LET analyzers == rule.analyzers[1]
            http_analyzers == SelectSeq(analyzers, LAMBDA a : a.meta.kind = HTTP)
            unused_analyzer_count ==
                Len(analyzers) - (IF http_analyzers # <<>> THEN 1 ELSE 0)
            log1 == IF unused_analyzer_count > 0
                    THEN <<Warning(UnmappedAnalyzersWarning, Some(unused_analyzer_count))>>
                    ELSE <<>>
        IN  IF http_analyzers = <<>> THEN [value |-> None, log |-> log1]
            ELSE
                LET analyzer == http_analyzers[1]
                    log2 == IF analyzer.action.timeout # None
                               /\ analyzer.action.timeout[1] # 0
                            THEN <<Warning(TimeoutWarning, None)>> ELSE <<>>
                    headers == map_headers(analyzer.action.headers)
                IN  [value |->
                        Some([type |-> VALIDATION_HTTP,
                              content |->
                                [request |->
                                    [method |->
                                        upper(IF Truthy(analyzer.action.method)
                                              THEN analyzer.action.method[1]
                                              ELSE <<"G", "E", "T">>),
                                     url |-> map_vars(analyzer.action.url, varmap),
                                     headers |-> IF headers = <<>> THEN None
                                                 ELSE Some(headers),
                                     body |-> _map_tmpl(analyzer.action.body),
                                     response_is_html |-> _response_is_html(analyzer),
                                     response_matcher |->
                                        Some(_response_matcher(analyzer))]]]),
                     log |-> log1 \o log2]

\* _depends_on_rule(rule)
_depends_on_rule(rule) ==
    IF ~Truthy(rule.dependencies) THEN None
    ELSE LET deps == rule.dependencies[1] IN
         Some([i \in 1..Len(deps) |->
                 [rule_id |-> deps[i].rule_id, variable |-> deps[i].varname]])

\* kingfisher._rule(rule)
kingfisher_rule(rule) ==
    LET validation == _validation(rule) IN
    [value |->
        [name |-> rule.meta.name,
         id |-> rule.id,
         pattern |-> _match_pattern(rule.target),
         min_entropy |-> _min_entropy(rule.filters),
         confidence |-> rule.meta.confidence,
         examples |-> _examples(rule),
         references |-> rule.meta.references,
         visibile |-> Some(rule.meta.report),
         depends_on_rule |-> _depends_on_rule(rule),
         validation |-> validation.value],
     log |->
        (IF Truthy(rule.filters)
         THEN <<Warning(KingfisherFiltersWarning, Some(rule.id))>> ELSE <<>>)
        \o validation.log]

\* kingfisher._config(rules)
kingfisher_config(rs) ==
    [value |-> [rules |-> [i \in 1..Len(rs) |-> kingfisher_rule(rs[i]).value]],
     log |-> Concat([i \in 1..Len(rs) |-> kingfisher_rule(rs[i]).log])]

\* ------------------------------------------------------------------ schema.py: loading

\* The longest document (list of rules).
MaxRules == 2

\* RuleId = ^S3IG[A-Z2-7]{16}$
valid_rule_id(id) ==
    /\ Len(id) = 20
    /\ SubSeq(id, 1, 4) = <<"S", "3", "I", "G">>
    /\ \A i \in 5..20 :
          \/ \E k \in 1..26 : UpperCase[k] = id[i]
          \/ id[i] \in {"2", "3", "4", "5", "6", "7"}

\* VariableName = ^[a-z](?:[a-z0-9_]*[a-z0-9])?$
valid_varname(v) ==
    LET small(c) == \E k \in 1..26 : LowerCase[k] = c IN
    /\ Len(v) >= 1
    /\ small(v[1])
    /\ \A i \in 2..Len(v) : small(v[i]) \/ IsDigit(v[i]) \/ v[i] = "_"
    /\ Len(v) >= 2 => small(v[Len(v)]) \/ IsDigit(v[Len(v)])

\* OptionalPositiveInt, OptionalPositiveFloat: None or >= 0
valid_optional_positive(o) == o = None \/ o[1] >= 0

\* Filter: the discriminator kind picks RequireFilter or ExcludeFilter, which
\* validates the fields it declares.  Neither model forbids extra fields, so
\* a field of the document that the picked model does not declare is ignored
\* and absent from the loaded filter.
load_filter(raw) ==
    IF raw.kind = REQUIRE
    THEN IF valid_optional_positive(raw.target_min_entropy)
         THEN Ok([raw EXCEPT !.target_patterns = None, !.match_patterns = None,
                             !.match_strings = None, !.context_patterns = None])
         ELSE Raised
    ELSE IF raw.kind = EXCLUDE
    THEN Ok([raw EXCEPT !.target_min_entropy = None])
    ELSE Raised

\* HttpMatcher: every item of statuses goes through ensure_valid_range.
load_matcher(raw) ==
    IF raw.statuses = None THEN Ok(raw)
    ELSE LET ranges == [i \in 1..Len(raw.statuses[1]) |->
                           ensure_valid_range(raw.statuses[1][i])]
         IN  IF \E i \in 1..Len(ranges) : ranges[i].raised THEN Raised
             ELSE Ok([raw EXCEPT !.statuses =
                         Some([i \in 1..Len(ranges) |-> ranges[i].value])])

\* Analyzer: meta.kind is an AnalyzerKind, action.timeout is not negative.
load_analyzer(raw) ==
    LET matchers == [i \in 1..Len(raw.condition) |-> load_matcher(raw.condition[i])] IN
    IF \/ raw.meta.kind # HTTP
       \/ ~valid_optional_positive(raw.action.timeout)
       \/ \E i \in 1..Len(matchers) : matchers[i].raised
    THEN Raised
    ELSE Ok([raw EXCEPT !.condition = [i \in 1..Len(matchers) |-> matchers[i].value]])

\* Dependancy
valid_dependency(d) ==
    /\ valid_rule_id(d.rule_id)
    /\ valid_varname(d.varname)
    /\ valid_optional_positive(d.within_lines)
    /\ valid_optional_positive(d.within_columns)

\* Rule
load_rule(raw) ==
    LET deps == OrEmpty(raw.dependencies)
        filters == [i \in 1..Len(OrEmpty(raw.filters)) |-> load_filter(raw.filters[1][i])]
        analyzers ==
            [i \in 1..Len(OrEmpty(raw.analyzers)) |-> load_analyzer(raw.analyzers[1][i])]
    IN  IF \/ ~valid_rule_id(raw.id)
           \/ \E i \in 1..Len(deps) : ~valid_dependency(deps[i])
           \/ \E i \in 1..Len(filters) : filters[i].raised
           \/ \E i \in 1..Len(analyzers) : analyzers[i].raised
        THEN Raised
        ELSE Ok([raw EXCEPT
                    !.filters = IF raw.filters = None THEN None
                                ELSE Some([i \in 1..Len(filters) |-> filters[i].value]),
                    !.analyzers = IF raw.analyzers = None THEN None
                                  ELSE Some([i \in 1..Len(analyzers) |->
                                                analyzers[i].value])])

\* _load_rules(rulespath): Schema.model_validate(document).rules
_load_rules(doc) ==
    LET loaded == [i \in 1..Len(doc) |-> load_rule(doc[i])] IN
    IF \E i \in 1..Len(loaded) : loaded[i].raised THEN Raised
    ELSE Ok([i \in 1..Len(loaded) |-> loaded[i].value])

\* ------------------------------------------------------------------ translate.py

\* targets.TargetKind
GITHUB == "github"
GITLEAKS == "gitleaks"
KINGFISHER == "kingfisher"
NOSEYPARKER == "noseyparker"
TRUFFLEHOG == "trufflehog"
TargetKinds == {GITHUB, GITLEAKS, KINGFISHER, NOSEYPARKER, TRUFFLEHOG}

Template == <<"k", "=", "{", "{", " ", "t", "a", "r", "g", "e", "t", " ", "}", "}">>

\* An HTTP analyzer with a status condition, a header and a body template.
FullAnalyzer ==
    [BareAnalyzer EXCEPT
        !.meta.report = TRUE,
        !.action.method = Some(<<"p", "o", "s", "t">>),
        !.action.headers = Some(<<[name |-> <<"x", "-", "k", "e", "y">>,
                                   value |-> Template]>>),
        !.action.body = Some(Template),
        !.condition =
            <<[BareMatcher EXCEPT
                  !.statuses = Some(<<IntValue(200), ListValue(<<100, 350>>)>>),
                  !.headers = Some(<<[name |-> <<"e", "t", "a", "g">>,
                                      values |-> << <<"a">> >>]>>),
                  !.body_syntax = Some(JSON)]>>]

\* An HTTP analyzer over plain http with a timeout.
PlainAnalyzer ==
    [BareAnalyzer EXCEPT
        !.action.url = <<"h", "t", "t", "p", ":", "/", "/", "h", "/">>,
        !.action.timeout = Some(5),
        !.condition = <<[BareMatcher EXCEPT !.body_syntax = Some(HTML)]>>]

\* The rules documents are made of: well-formed ones that between them use
\* every capability, and ones that the schema has to reject or to trim.
SampleRules == {
    BareRule,
    [BareRule EXCEPT
        !.id = SampleId("B"),
        !.meta.report = FALSE,
        !.meta.confidence = Some("high"),
        !.meta.description = Some(<<"d">>),
        !.meta.tags = Some(<< <<"t">> >>),
        !.meta.examples = Some([positive |-> Some(<< <<"a", "b">> >>), negative |-> None]),
        !.target.prefix_pattern = Some(<<"a", "|", "b">>),
        !.filters = Some(<<
            [BareFilter(REQUIRE) EXCEPT
                !.target_min_entropy = Some(20),
                !.context_strings = Some(<< <<"a">> >>),
                !.path_strings = Some(<< <<"x", ".", "Y">> >>)],
            [BareFilter(EXCLUDE) EXCEPT
                !.target_strings = Some(<< <<"A", "b">> >>),
                !.context_strings = Some(<< <<"a">> >>),
                !.match_patterns = Some(<< <<"a", "b">> >>)]>>)],
    [BareRule EXCEPT
        !.id = SampleId("C"),
        !.dependencies = Some(<<[rule_id |-> SampleId("A"), varname |-> <<"k">>,
                                 within_lines |-> Some(3), within_columns |-> None]>>),
        !.analyzers = Some(<<FullAnalyzer>>)],
    [BareRule EXCEPT
        !.id = SampleId("D"),
        !.filters = Some(<<
            BareFilter(REQUIRE),
            [BareFilter(REQUIRE) EXCEPT !.target_strings = Some(<< <<"A", "b">> >>)]>>),
        !.analyzers = Some(<<PlainAnalyzer, FullAnalyzer>>)],
    [BareRule EXCEPT
        !.id = SampleId("E"),
        !.filters = Some(<<
            [BareFilter(REQUIRE) EXCEPT
                !.target_strings = Some(<< <<"a">> >>),
                !.target_patterns = Some(<< <<"a", "b">> >>)]>>)],
    [BareRule EXCEPT
        !.id = SampleId("F"),
        !.analyzers = Some(<<>>),
        !.filters = Some(<<
            [BareFilter(EXCLUDE) EXCEPT
                !.target_patterns = Some(<< <<"a", "b">> >>),
                !.target_min_entropy = Some(35)]>>)],
    [BareRule EXCEPT !.id = SampleId("1")],
    [BareRule EXCEPT
        !.id = SampleId("G"),
        !.filters = Some(<<[BareFilter(REQUIRE) EXCEPT !.target_min_entropy = Some(-1)]>>)],
    [BareRule EXCEPT
        !.id = SampleId("H"),
        !.analyzers = Some(<<
            [BareAnalyzer EXCEPT
                !.condition = <<[BareMatcher EXCEPT
                                    !.statuses = Some(<<ListValue(<<350, 100>>)>>)]>>]>>)] }

Init ==
    /\ pc = "start"
    /\ opts \in [target : TargetKinds, document : SeqsUpTo(SampleRules, MaxRules)]
    /\ rules = <<>>
    /\ document = None
    /\ warnings = <<>>
    /\ call = NoCall
    /\ ret = <<>>

\* _translate, first half: rules = _load_rules(opts.rulespath).  A validation
\* error ends the program.
LoadRules ==
    /\ pc = "start"
    /\ LET loaded == _load_rules(opts.document) IN
       IF loaded.raised
       THEN pc' = "failed" /\ UNCHANGED rules
       ELSE pc' = "loaded" /\ rules' = loaded.value
    /\ UNCHANGED <<opts, document, warnings, call, ret>>

\* _translate, second half: getattr(targets, fmt).translate(rules)
Translated(target, config) ==
    /\ pc = "loaded"
    /\ opts.target = target
    /\ document' = Some(config.value)
    /\ warnings' = warnings \o config.log
    /\ pc' = "done"
    /\ UNCHANGED <<opts, rules, call, ret>>

TranslateGithub ==
    /\ pc = "loaded"
    /\ Translated(GITHUB, github_config(rules))

TranslateGitleaks ==
    /\ pc = "loaded"
    /\ Translated(GITLEAKS, gitleaks_config(rules))

TranslateKingfisher ==
    /\ pc = "loaded"
    /\ Translated(KINGFISHER, kingfisher_config(rules))

TranslateNoseyparker ==
    /\ pc = "loaded"
    /\ Translated(NOSEYPARKER, noseyparker_config(rules))

TranslateTrufflehog ==
    /\ pc = "loaded"
    /\ Translated(TRUFFLEHOG, trufflehog_config(rules))

Next ==
    \/ LoadRules
    \/ TranslateGithub
    \/ TranslateGitleaks
    \/ TranslateKingfisher
    \/ TranslateNoseyparker
    \/ TranslateTrufflehog

Spec == Init /\ [][Next]_vars

\* ------------------------------------------------------------------ the rule lowerings, called

\* The longest Analyzer.condition list and the longest rule.analyzers list.
MaxConditions == 2
MaxAnalyzers == 2

\* Response headers a condition entry declares, as the mapping's items.
SampleHeaders ==
    <<[name |-> <<"e", "t", "a", "g">>, values |-> << <<"a">> >>],
      [name |-> <<"x", "-", "i", "d">>, values |-> << <<"a">>, <<"b">> >>]>>

\* Condition entries that differ in what _response_matcher reads: every body
\* syntax without and with statuses and headers, statuses alone, and empty
\* statuses and headers.
ConditionEntries ==
    {[BareMatcher EXCEPT !.body_syntax = syntax] :
        syntax \in OptionOf({JSON, XML, HTML})}
    \cup {[BareMatcher EXCEPT !.body_syntax = syntax,
                              !.statuses = Some(<< <<200, 200>> >>),
                              !.headers = Some(SampleHeaders)] :
             syntax \in OptionOf({JSON, XML, HTML})}
    \cup {[BareMatcher EXCEPT !.body_syntax = Some(JSON),
                              !.statuses = Some(<< <<100, 350>> >>)],
          [BareMatcher EXCEPT !.statuses = Some(<<>>), !.headers = Some(<<>>)]}

ConditionAnalyzers ==
    {[BareAnalyzer EXCEPT !.meta.report = report, !.condition = condition] :
        report \in BOOLEAN,
        condition \in SeqsUpTo(ConditionEntries, MaxConditions)}

\* Analyzers that differ in what trufflehog._verify reads: the scheme of the
\* url, a host named like a scheme, and the request headers.
VerifyAnalyzers ==
    {[BareAnalyzer EXCEPT !.action.url = url, !.action.headers = headers] :
        url \in {<<"h", "t", "t", "p", "s", ":", "/", "/", "h", "/">>,
                 <<"h", "t", "t", "p", ":", "/", "/", "h", "/">>,
                 <<"h", "t", "t", "p", "s", ":", "/", "/", "h", "t", "t", "p", "/">>},
        headers \in {None, Some(<<>>),
                     Some(<<[name |-> <<"x", "-", "k", "e", "y">>, value |-> Template]>>),
                     Some(<<[name |-> <<"a">>, value |-> <<"b">>],
                            [name |-> <<"x", "-", "k", "e", "y">>, value |-> <<"c", ":", "d">>]>>)}}

\* FullAnalyzer as a loaded rule holds it.
LoadedAnalyzer == load_analyzer(FullAnalyzer).value

CallKingfisherRule ==
    /\ pc = "idle"
    /\ \E filters \in OptionOf(SeqsUpTo(HelperFilters, MaxFilters)),
          analyzers \in {None, Some(<<LoadedAnalyzer>>)} :
          LET rule == [BareRule EXCEPT !.filters = filters, !.analyzers = analyzers]
              r == kingfisher_rule(rule)
          IN  Returns("kingfisher._rule", rule, r.value, r.log)

CallValidation ==
    /\ pc = "idle"
    /\ \E first \in ConditionAnalyzers, rest \in {<<>>, <<LoadedAnalyzer>>} :
          LET rule == [BareRule EXCEPT !.analyzers = Some(<<first>> \o rest)]
              r == _validation(rule)
          IN  Returns("_validation", rule, r.value, r.log)

CallVerify ==
    /\ pc = "idle"
    /\ \E analyzers \in OptionOf(SeqsUpTo(VerifyAnalyzers, MaxAnalyzers)) :
          LET rule == [BareRule EXCEPT !.analyzers = analyzers]
              r == _verify(rule)
          IN  Returns("_verify", rule, r.value, r.log)

NextLowering == CallKingfisherRule \/ CallValidation \/ CallVerify

SpecLowering == InitCalls /\ [][NextLowering]_vars

\* ------------------------------------------------------------------ claims

NonCapturing(p) == <<"(", "?", ":">> \o p \o <<")">>
Capturing(p) == <<"(">> \o p \o <<")">>

\* C1: composeMatch returns prefix' + core' + suffix', a present affix wrapped
\* as (?:affix), an absent one contributing nothing, and the core wrapped as
\* (core) exactly when a prefix or a suffix is present; with neither, the
\* target pattern is returned unchanged.
C1_ComposeMatch ==
    call.fn = "_match_pattern" =>
        LET t == call.arg
            hasPre == t.prefix_pattern # None
            hasSuf == t.suffix_pattern # None
            pre == IF hasPre THEN NonCapturing(t.prefix_pattern[1]) ELSE <<>>
            suf == IF hasSuf THEN NonCapturing(t.suffix_pattern[1]) ELSE <<>>
            core == IF hasPre \/ hasSuf THEN Capturing(t.pattern) ELSE t.pattern
        IN  /\ ret = pre \o core \o suf
            /\ (~hasPre /\ ~hasSuf) => ret = t.pattern

C1_Witness ==
    /\ call.fn = "_match_pattern"
    /\ call.arg.prefix_pattern # None
    /\ call.arg.suffix_pattern = None
    /\ ret = NonCapturing(call.arg.prefix_pattern[1]) \o Capturing(call.arg.pattern)

\* The number of places at which `sub` occurs in `s`.
Occurrences(sub, s) ==
    Cardinality({i \in 1..(Len(s) - Len(sub) + 1) :
                    SubSeq(s, i, i + Len(sub) - 1) = sub})

\* One literal, escaped and lower-cased: every character lower-cased, a
\* backslash before each special one.
RECURSIVE EscapedLowered(_)
EscapedLowered(s) ==
    IF s = <<>> THEN <<>>
    ELSE (IF Head(s) \in SpecialChars THEN <<"\\">> ELSE <<>>)
             \o <<lower_char(Head(s))>> \o EscapedLowered(Tail(s))

RECURSIVE Alternation(_, _)
\* The alternatives of l[i..], each in its own non-capturing group.
Alternation(l, i) ==
    IF i > Len(l) THEN <<>>
    ELSE (IF i > 1 THEN <<"|">> ELSE <<>>)
             \o NonCapturing(EscapedLowered(l[i])) \o Alternation(l, i + 1)

\* C2: literalsToPattern returns None for an absent or empty list; for one
\* string the flag followed by the string escaped and lower-cased; for two or
\* more the flag, once and at the very start, followed by the alternation in
\* input order of the escaped and lower-cased strings.
C2_LiteralsToPattern ==
    call.fn = "_strings_to_pattern" =>
        LET l == OrEmpty(call.arg) IN
        /\ Len(l) = 0 => ret = None
        /\ Len(l) = 1 => ret = Some(IgnoreCase \o EscapedLowered(l[1]))
        /\ Len(l) >= 2 =>
              /\ ret = Some(IgnoreCase \o Alternation(l, 1))
              /\ Occurrences(IgnoreCase, ret[1]) = 1
              /\ SubSeq(ret[1], 1, Len(IgnoreCase)) = IgnoreCase

C2_Witness ==
    /\ call.fn = "_strings_to_pattern"
    /\ call.arg = Some(<< <<"(", "?", "i", ")">>, <<"A", "b">> >>)
    /\ ret = Some(<<"(", "?", "i", ")",
                    "(", "?", ":", "\\", "(", "\\", "?", "i", "\\", ")", ")",
                    "|", "(", "?", ":", "a", "b", ")">>)

\* The largest element of a non-empty set of numbers.
Maximum(S) == CHOOSE x \in S : \A y \in S : y <= x

\* C3: the aggregated minimum entropy is the maximum target_min_entropy over
\* the REQUIRE filters that specify one, and None only when no REQUIRE filter
\* specifies one; EXCLUDE filters never count.
C3_MinEntropy ==
    call.fn = "_min_entropy" =>
        LET fs == OrEmpty(call.arg)
            specified ==
                {fs[i].target_min_entropy[1] :
                    i \in {j \in 1..Len(fs) :
                             /\ fs[j].kind = REQUIRE
                             /\ fs[j].target_min_entropy # None}}
        IN  ret = IF specified = {} THEN None ELSE Some(Maximum(specified))

\* The scopes of an EXCLUDE filter that are populated, in priority order.
PopulatedScopes(f) ==
    (IF Truthy(f.context_patterns) \/ Truthy(f.context_strings)
     THEN <<LINE>> ELSE <<>>)
    \o (IF Truthy(f.match_patterns) \/ Truthy(f.match_strings)
        THEN <<MATCH>> ELSE <<>>)
    \o (IF Truthy(f.target_patterns) THEN <<SECRET>> ELSE <<>>)

\* The pattern of a list of literal strings, as a list of zero or one pattern.
StringsPattern(strings) ==
    LET l == OrEmpty(strings) IN
    IF l = <<>> THEN <<>>
    ELSE IF Len(l) = 1 THEN <<IgnoreCase \o EscapedLowered(l[1])>>
    ELSE <<IgnoreCase \o Alternation(l, 1)>>

\* C6: the allowlist's regexTarget is that of the first populated scope in the
\* order context (LINE), match (MATCH), target patterns (SECRET); regexes holds
\* the patterns of every populated scope in the order context patterns,
\* context-string pattern, match patterns, match-string pattern, target
\* patterns; and one warning, naming the chosen target, is recorded for each
\* further populated scope (match before target), none when one scope or no
\* scope is populated.
C6_AllowlistScopes ==
    call.fn = "_allowlist_regexes" =>
        LET f == call.arg
            scopes == PopulatedScopes(f)
            regexes ==
                OrEmpty(f.context_patterns) \o StringsPattern(f.context_strings)
                    \o OrEmpty(f.match_patterns) \o StringsPattern(f.match_strings)
                    \o OrEmpty(f.target_patterns)
        IN  IF scopes = <<>>
            THEN /\ ret = [regex_target |-> None, patterns |-> None]
                 /\ warnings = <<>>
            ELSE /\ ret.regex_target = Some(scopes[1])
                 /\ ret.patterns = Some(regexes)
                 /\ Len(warnings) = Len(scopes) - 1
                 /\ \A i \in 1..Len(warnings) :
                       /\ warnings[i].arg = Some(scopes[1])
                       /\ warnings[i].msg =
                              IF scopes[i + 1] = MATCH THEN MatchWarning
                              ELSE TargetWarning

C6_Witness ==
    /\ call.fn = "_allowlist_regexes"
    /\ call.arg.context_strings = Some(<< <<"A", "b">> >>)
    /\ call.arg.context_patterns = None
    /\ call.arg.match_patterns = Some(<< <<"a", "b">> >>)
    /\ call.arg.target_patterns = Some(<< <<"a", "|", "b">> >>)
    /\ ret.regex_target = Some(LINE)
    /\ Len(ret.patterns[1]) = 3
    /\ Len(warnings) = 2

\* The places in rule.filters of the filters that contribute a pattern to the
\* github lowering, in filter order.
Contributing(filters) ==
    SelectSeq([j \in 1..Len(filters) |-> j],
              LAMBDA j :
                  \/ Truthy(filters[j].target_strings)
                  \/ filters[j].kind = EXCLUDE /\ Truthy(filters[j].target_patterns))

\* C7: in the github lowering a filter with no usable pattern is skipped with
\* a warning and takes no index: the emitted pairs are numbered 0, 1, 2, ...
\* over the contributing filters in filter order, each with MUST_MATCH for a
\* REQUIRE filter and MUST_NOT_MATCH for an EXCLUDE filter.
C7_GithubIndices ==
    call.fn = "github._pattern" =>
        LET filters == OrEmpty(call.arg.filters)
            kept == Contributing(filters)
        IN  /\ DOMAIN ret.post_processing = 0..(Len(kept) - 1)
            /\ \A k \in 1..Len(kept) :
                  (k - 1) \in DOMAIN ret.post_processing =>
                      ret.post_processing[k - 1].post_processing_rule =
                          IF filters[kept[k]].kind = REQUIRE THEN MUST_MATCH
                          ELSE MUST_NOT_MATCH
            /\ Len(warnings) = Len(filters) - Len(kept)

\* The codes covered by a list of inclusive ranges.
Covered(statuses) ==
    {c \in 0..700 : \E i \in 1..Len(statuses) :
                       statuses[i][1] <= c /\ c <= statuses[i][2]}

\* C4: the status optimizer expands the ranges into the set E of covered codes
\* and takes the complement C of E within 100..599; it returns C with
\* negative = true exactly when |E| > |C|, and otherwise exactly E with
\* negative = false, so that a tie is not negated.
C4_ResolveStatus ==
    call.fn = "_resolve_status" =>
        LET E == Covered(call.arg)
            C == {c \in 100..599 : c \notin E}
        IN  /\ ret.negative <=> Cardinality(E) > Cardinality(C)
            /\ BagToSet(ret.status) = IF ret.negative THEN C ELSE E
            /\ (Cardinality(E) = Cardinality(C)) =>
                   ~ret.negative /\ BagToSet(ret.status) = E

C4_Witness ==
    /\ call.fn = "_resolve_status"
    /\ call.arg = << <<100, 349>> >>
    /\ ~ret.negative
    /\ BagToSet(ret.status) = 100..349

\* The status matchers among the matchers emitted for an analyzer.
StatusMatchers(matchers) == SelectSeq(matchers, LAMBDA m : m.type = STATUS_MATCH)

\* C5 as stated: for every accepted set of ranges, an expansion of more than
\* 250 codes is emitted negated, listing the complement, and an expansion of
\* exactly 250 codes is emitted as it is, not negated.
C5_HalfDomain ==
    (call.fn = "_response_matcher" /\ Truthy(call.arg.condition[1].statuses)) =>
        LET E == Covered(call.arg.condition[1].statuses[1])
            emitted == StatusMatchers(ret)
        IN  /\ Len(emitted) = 1
            /\ Cardinality(E) > 250 =>
                  /\ emitted[1].negative
                  /\ BagToSet(emitted[1].status) = {c \in 100..599 : c \notin E}
            /\ Cardinality(E) = 250 =>
                  /\ ~emitted[1].negative
                  /\ BagToSet(emitted[1].status) = E

\* C5 amended: the first half holds for ranges that lie within 100..599.
C5_HalfDomainWithin ==
    (call.fn = "_response_matcher" /\ Truthy(call.arg.condition[1].statuses)) =>
        LET E == Covered(call.arg.condition[1].statuses[1])
            emitted == StatusMatchers(ret)
        IN  /\ Len(emitted) = 1
            /\ (Cardinality(E) > 250 /\ E \subseteq 100..599) =>
                  /\ emitted[1].negative
                  /\ BagToSet(emitted[1].status) = {c \in 100..599 : c \notin E}
            /\ Cardinality(E) = 250 =>
                  /\ ~emitted[1].negative
                  /\ BagToSet(emitted[1].status) = E

C5_Witness ==
    /\ call.fn = "_response_matcher"
    /\ call.arg.condition[1].statuses = Some(<< <<100, 350>> >>)
    /\ \E i \in 1..Len(ret) :
          /\ ret[i].type = STATUS_MATCH
          /\ ret[i].negative
          /\ BagToSet(ret[i].status) = 351..599

\* The warnings that carry the id of the rule they are about.
IdWarnings ==
    {GitleaksAnalyzersWarning, KingfisherFiltersWarning, SkipWarning,
     NoseyparkerDependenciesWarning, NoseyparkerFiltersWarning,
     NoseyparkerAnalyzersWarning}

\* Whether the rule uses a capability that the backend cannot represent.
UsesUnsupported(target, rule) ==
    \/ target \in {GITHUB, GITLEAKS, NOSEYPARKER} /\ Truthy(rule.analyzers)
    \/ target \in {KINGFISHER, NOSEYPARKER} /\ Truthy(rule.filters)
    \/ target = NOSEYPARKER /\ Truthy(rule.dependencies)
    \/ target = KINGFISHER /\ Len(OrEmpty(rule.analyzers)) > 1
    \/ target = TRUFFLEHOG
         /\ \E i \in 1..Len(OrEmpty(rule.analyzers)) :
               rule.analyzers[1][i].meta.kind # HTTP

\* The list of backend rules that a document holds.
BackendRules(target, doc) ==
    IF target = GITHUB THEN doc.patterns
    ELSE IF target = TRUFFLEHOG THEN doc.detectors
    ELSE doc.rules

\* C8: whenever a rule uses a capability the backend cannot represent, a
\* warning identifying the rule by its id is recorded, and every rule of the
\* list is still translated.
C8_UnsupportedWarned ==
    pc = "done" =>
        /\ Len(BackendRules(opts.target, document[1])) = Len(rules)
        /\ \A i \in 1..Len(rules) :
              UsesUnsupported(opts.target, rules[i]) =>
                  \E k \in 1..Len(warnings) :
                      /\ warnings[k].msg \in IdWarnings
                      /\ warnings[k].arg = Some(rules[i].id)

\* Whether a filter of the document carries a field illegal for its kind.
IllegalField(f) ==
    \/ /\ f.kind = REQUIRE
       /\ \/ f.target_patterns # None
          \/ f.match_patterns # None
          \/ f.match_strings # None
          \/ f.context_patterns # None
    \/ f.kind = EXCLUDE /\ f.target_min_entropy # None

\* C9: a rule collection in which a REQUIRE filter carries an EXCLUDE-only
\* field, or an EXCLUDE filter carries target_min_entropy, is rejected at
\* loading: no emitter runs and nothing is emitted.
C9_IllegalFieldRejected ==
    (\E i \in 1..Len(opts.document) :
        \E j \in 1..Len(OrEmpty(opts.document[i].filters)) :
            IllegalField(opts.document[i].filters[1][j]))
    => (pc \in {"start", "failed"} /\ document = None)

\* The lowering of one rule, alone, by a backend.
Lowered(target, rule) ==
    IF target = GITHUB THEN github_pattern(rule).values
    ELSE IF target = GITLEAKS THEN gitleaks_rule(rule).value
    ELSE IF target = KINGFISHER THEN kingfisher_rule(rule).value
    ELSE IF target = NOSEYPARKER THEN noseyparker_rule(rule).value
    ELSE _detector(rule).value

\* C10: each emitter, given n rules, returns a document of exactly n backend
\* rules, the i-th being the lowering of the i-th input rule alone, and leaves
\* the input rules as they were.
C10_RuleByRule ==
    [][(pc = "loaded" /\ pc' = "done") =>
          /\ rules' = rules
          /\ LET out == BackendRules(opts.target, document'[1]) IN
             /\ Len(out) = Len(rules)
             /\ \A i \in 1..Len(rules) : out[i] = Lowered(opts.target, rules[i])]_vars

C10_Witness ==
    /\ pc = "done"
    /\ opts.target = GITLEAKS
    /\ Len(rules) = 2
    /\ rules[1].id = SampleId("B")
    /\ rules[2].id = SampleId("C")
    /\ Len(document[1].rules) = 2
    /\ document[1].rules[1].id = SampleId("B")
    /\ document[1].rules[2].id = SampleId("C")

\* Every variable reference in expression position of a template, whatever
\* block it stands in.
AllReferences(tmpl) == statement_tokens(tmpl, statement_opens(tmpl))

\* The template with the span of each reference that the table names replaced
\* by the mapped value, and every other character kept.
Rewritten(tmpl, table) ==
    LET refs == SelectSeq(AllReferences(tmpl), LAMBDA t : t.value \in DOMAIN table)
        at(i) == {k \in 1..Len(refs) : refs[k].start_index + 1 = i}
        inside(i) == \E k \in 1..Len(refs) :
                        /\ refs[k].start_index + 1 < i
                        /\ i <= refs[k].start_index + Len(refs[k].value)
    IN  Concat([i \in 1..Len(tmpl) |->
                  IF at(i) # {} THEN table[refs[CHOOSE k \in at(i) : TRUE].value]
                  ELSE IF inside(i) THEN <<>>
                  ELSE <<tmpl[i]>>])

\* C11: map_vars returns the template with the span of every variable
\* reference in expression position, nested in a block or not, whose name is
\* a key of the table replaced by the mapped value, and nothing else changed.
C11_MapVars ==
    call.fn = "map_vars" => ret = Rewritten(call.arg.tmpl, call.arg.varmap)

\* The places in rule.filters of the EXCLUDE filters, in filter order.
Excluding(filters) ==
    SelectSeq([j \in 1..Len(filters) |-> j], LAMBDA j : filters[j].kind = EXCLUDE)

\* The paths of a filter: its path patterns followed by the pattern of its
\* path strings, absent when there is neither.
PathsOf(f) ==
    LET paths == OrEmpty(f.path_patterns) \o StringsPattern(f.path_strings)
    IN  IF paths = <<>> THEN None ELSE Some(paths)

\* C12: the gitleaks lowering of a rule with k EXCLUDE filters has exactly k
\* allowlists, the j-th for the j-th EXCLUDE filter in filter order, with
\* condition AND, that filter's target strings as stopwords and as paths
\* that filter's path patterns followed by its path-string pattern; with no
\* EXCLUDE filter there are no allowlists at all, whatever REQUIRE filters
\* the rule has.
C12_Allowlists ==
    call.fn = "_allowlists" =>
        LET filters == OrEmpty(call.arg.filters)
            exc == Excluding(filters)
        IN  IF exc = <<>> THEN ret = None
            ELSE /\ ret # None
                 /\ Len(ret[1]) = Len(exc)
                 /\ \A k \in 1..Len(exc) :
                       /\ ret[1][k].condition = AND
                       /\ ret[1][k].stopwords = filters[exc[k]].target_strings
                       /\ ret[1][k].paths = PathsOf(filters[exc[k]])

C12_Witness ==
    /\ call.fn = "_allowlists"
    /\ Truthy(call.arg.filters)
    /\ Len(call.arg.filters[1]) = 3
    /\ call.arg.filters[1][1].kind = EXCLUDE
    /\ call.arg.filters[1][2].kind = REQUIRE
    /\ call.arg.filters[1][2].path_strings # None
    /\ call.arg.filters[1][3].kind = EXCLUDE
    /\ Len(ret[1]) = 2
    /\ ret[1][1].stopwords = Some(<< <<"A", "b">> >>)
    /\ Len(ret[1][1].paths[1]) = 2
    /\ ret[1][2].paths = Some(<< <<"(", "?", "i", ")",
                                  "(", "?", ":", "x", "\\", ".", "y", ")", "|",
                                  "(", "?", ":", "a", "b", ")">> >>)

\* C13: the kingfisher lowering of a rule does not depend on its filters, so
\* it is the lowering of the same rule without filters (and with that the
\* lowerings of two rules that differ in their filters only are the same),
\* and a warning with the rule id is recorded when the filters list is
\* not empty.
C13_FiltersIgnored ==
    call.fn = "kingfisher._rule" =>
        /\ ret = kingfisher_rule([call.arg EXCEPT !.filters = None]).value
        /\ Truthy(call.arg.filters) =>
              \E k \in 1..Len(warnings) :
                  warnings[k] = Warning(KingfisherFiltersWarning, Some(call.arg.id))

\* What the order claim reads of an emitted matcher: its type and, for a
\* header matcher, the values it expects.
Label(m) == IF m.type = HEADER_MATCH THEN <<m.type, m.expected>> ELSE <<m.type>>

\* The matchers one condition entry calls for, as labels: body validity for
\* JSON or XML, then status when statuses are present, then the headers.
EntryLabels(entry) ==
    (IF entry.body_syntax = Some(JSON) THEN << <<JSON_VALID>> >>
     ELSE IF entry.body_syntax = Some(XML) THEN << <<XML_VALID>> >>
     ELSE <<>>)
    \o (IF OrEmpty(entry.statuses) # <<>> THEN << <<STATUS_MATCH>> >> ELSE <<>>)
    \o [i \in 1..Len(OrEmpty(entry.headers)) |->
           <<HEADER_MATCH, entry.headers[1][i].values>>]

\* C14: the response_matcher list of the kingfisher validation block is, for
\* the first HTTP analyzer of the rule, the concatenation over its condition
\* entries in order of a JSON- or XML-validity matcher (none for HTML or no
\* body syntax), a status matcher when statuses are present and one header
\* matcher per declared header; a report-response matcher is there exactly
\* when report is true, once, as the last element.
C14_ResponseMatchers ==
    call.fn = "_validation" =>
        LET analyzer == SelectSeq(call.arg.analyzers[1],
                                  LAMBDA a : a.meta.kind = HTTP)[1]
            matchers == ret[1].content.request.response_matcher[1]
            reports == {i \in 1..Len(matchers) : matchers[i].type = REPORT_RESPONSE}
        IN  /\ [i \in 1..Len(matchers) |-> Label(matchers[i])]
                  = Concat([i \in 1..Len(analyzer.condition) |->
                              EntryLabels(analyzer.condition[i])])
                    \o (IF analyzer.meta.report THEN << <<REPORT_RESPONSE>> >> ELSE <<>>)
            /\ reports = IF analyzer.meta.report THEN {Len(matchers)} ELSE {}

C14_Witness ==
    /\ call.fn = "_validation"
    /\ Len(call.arg.analyzers[1]) = 2
    /\ call.arg.analyzers[1][1].meta.report
    /\ Len(call.arg.analyzers[1][1].condition) = 2
    /\ call.arg.analyzers[1][1].condition[1].body_syntax = Some(XML)
    /\ call.arg.analyzers[1][1].condition[1].headers = Some(SampleHeaders)
    /\ call.arg.analyzers[1][1].condition[2].body_syntax = Some(JSON)
    /\ call.arg.analyzers[1][1].condition[2].headers = None
    /\ call.arg.analyzers[1][1].condition[2].statuses # None
    /\ [i \in 1..7 |-> ret[1].content.request.response_matcher[1][i].type]
          = <<XML_VALID, STATUS_MATCH, HEADER_MATCH, HEADER_MATCH,
              JSON_VALID, STATUS_MATCH, REPORT_RESPONSE>>

\* Whether a url is of the insecure scheme: it starts with "http:".
InsecureScheme(url) ==
    Len(url) >= 5 /\ SubSeq(url, 1, 5) = <<"h", "t", "t", "p", ":">>

\* C15: verify of the trufflehog lowering has one entry per HTTP analyzer of
\* the rule, in analyzer order; the entry's endpoint is the analyzer's url,
\* its unsafe flag is true when the scheme of the url is http and absent
\* otherwise, its headers are the "Name: value" strings of the action's
\* headers in their order (none for absent or empty headers); and verify is
\* absent when no analyzer yields an entry.
C15_Verify ==
    call.fn = "_verify" =>
        LET http == SelectSeq(OrEmpty(call.arg.analyzers),
                              LAMBDA a : a.meta.kind = HTTP)
        IN  IF http = <<>> THEN ret = None
            ELSE /\ ret # None
                 /\ Len(ret[1]) = Len(http)
                 /\ \A i \in 1..Len(http) :
                       LET hs == OrEmpty(http[i].action.headers) IN
                       /\ ret[1][i].endpoint = http[i].action.url
                       /\ ret[1][i].unsafe =
                              IF InsecureScheme(http[i].action.url)
                              THEN Some(TRUE) ELSE None
                       /\ OrEmpty(ret[1][i].headers) =
                              [j \in 1..Len(hs) |->
                                  hs[j].name \o <<":", " ">> \o hs[j].value]

C15_Witness ==
    /\ call.fn = "_verify"
    /\ Truthy(call.arg.analyzers)
    /\ Len(call.arg.analyzers[1]) = 2
    /\ Len(ret[1]) = 2
    /\ ret[1][1].unsafe = None
    /\ ret[1][1].endpoint =
           <<"h", "t", "t", "p", "s", ":", "/", "/", "h", "t", "t", "p", "/">>
    /\ ret[1][1].headers = None
    /\ ret[1][2].unsafe = Some(TRUE)
    /\ ret[1][2].headers = Some(<< <<"a", ":", " ", "b">>,
                                   <<"x", "-", "k", "e", "y", ":", " ", "c", ":", "d">> >>)

\* Whether a list is a pair with the first number strictly smaller.
StrictPair(l) == Len(l) = 2 /\ l[1] < l[2]

\* C16 as stated: an integer n is normalized to [n, n]; a list is accepted,
\* and returned as it is, exactly when it is a strictly ordered pair, and
\* rejected otherwise; every accepted range [a, b] has a <= b; and
\* normalizing a normalized range gives the same range.
C16_Normalization ==
    call.fn = "ensure_valid_range" =>
        /\ call.arg.is_int => ret = Ok(<<call.arg.items[1], call.arg.items[1]>>)
        /\ ~call.arg.is_int =>
              /\ ret.raised <=> ~StrictPair(call.arg.items)
              /\ ~ret.raised => ret.value = call.arg.items
        /\ ~ret.raised => ret.value[1] <= ret.value[2]
        /\ ~ret.raised => ensure_valid_range(ListValue(ret.value)) = Ok(ret.value)

\* C16 amended: as stated, but normalizing a normalized range gives the same
\* range only when its ends differ; the range [n, n] that an integer is
\* normalized to is rejected when it is normalized again.
C16_NormalizationStrict ==
    call.fn = "ensure_valid_range" =>
        /\ call.arg.is_int => ret = Ok(<<call.arg.items[1], call.arg.items[1]>>)
        /\ ~call.arg.is_int =>
              /\ ret.raised <=> ~StrictPair(call.arg.items)
              /\ ~ret.raised => ret.value = call.arg.items
        /\ ~ret.raised => ret.value[1] <= ret.value[2]
        /\ (~ret.raised /\ ret.value[1] < ret.value[2]) =>
              ensure_valid_range(ListValue(ret.value)) = Ok(ret.value)
        /\ (~ret.raised /\ ret.value[1] = ret.value[2]) =>
              ensure_valid_range(ListValue(ret.value)).raised

C16_Witness ==
    /\ call.fn = "ensure_valid_range"
    /\ call.arg = IntValue(250)
    /\ ret = Ok(<<250, 250>>)
    /\ ensure_valid_range(ListValue(ret.value)).raised

\* Whether the emitted status matcher accepts the code s.
Accepts(matcher, s) ==
    IF matcher.negative THEN ~BagIn(s, matcher.status) ELSE BagIn(s, matcher.status)

\* C17: for every list of declared ranges and every code s of 100..599, the
\* emitted status matcher accepts s exactly when s lies in one of the
\* declared inclusive ranges; and no code is in the emitted list twice.
C17_MeaningPreserved ==
    call.fn = "_resolve_status" =>
        /\ \A s \in 100..599 :
              Accepts(ret, s) <=>
                  \E i \in 1..Len(call.arg) :
                      call.arg[i][1] <= s /\ s <= call.arg[i][2]
        /\ \A s \in BagToSet(ret.status) : CopiesIn(s, ret.status) = 1

C17_Witness ==
    /\ call.fn = "_resolve_status"
    /\ call.arg = << <<100, 250>>, <<250, 349>> >>
    /\ ~ret.negative
    /\ CopiesIn(250, ret.status) = 1
    /\ BagCardinality(ret.status) = 250

\* C18: every allowlist of the gitleaks lowering has a regexTarget exactly
\* when it has a regexes list that is not empty, also for filters whose scope
\* fields are given as empty lists.
C18_TargetIffRegexes ==
    (call.fn = "_allowlists" /\ ret # None) =>
        \A k \in 1..Len(ret[1]) :
            (ret[1][k].regexTarget # None) <=> (OrEmpty(ret[1][k].regexes) # <<>>)

C18_Witness ==
    /\ call.fn = "_allowlists"
    /\ Truthy(call.arg.filters)
    /\ Len(call.arg.filters[1]) = 2
    /\ call.arg.filters[1][1].context_patterns = Some(<<>>)
    /\ call.arg.filters[1][1].target_patterns = Some(<<>>)
    /\ call.arg.filters[1][2].context_patterns = Some(<<>>)
    /\ call.arg.filters[1][2].target_patterns = Some(<< <<"a", "b">> >>)
    /\ ret[1][1].regexTarget = None
    /\ ret[1][1].regexes = None
    /\ ret[1][2].regexTarget = Some(SECRET)
    /\ ret[1][2].regexes = Some(<< <<"a", "b">> >>)
====
